---- MODULE Spec2Model ----
(***************************************************************************)
(* Model of the IPLD data-model of iprs, src/src/ipld/kind.rs: the Key     *)
(* type and its total order, the Basic variant and its Node dispatch, the  *)
(* list and map containers, and the conversion from a Cbor value tree.     *)
(*                                                                         *)
(* Values are tagged tuples <<tag, payload>>, the tag first.               *)
(*   Key     <<"Null", <<>>>>  <<"Bool", b>>  <<"Offset", usize>>          *)
(*           <<"Text", bytes>>  <<"Bytes", bytes>>                         *)
(*   usize   four 16-bit limbs, most significant first (64 bits)           *)
(*   i128    eight 16-bit limbs, most significant first, two's complement  *)
(*   String  the sequence of its UTF-8 bytes                               *)
(*   Result  <<"Ok", v>>  <<"Err", kind>>  <<"Panic", what>>               *)
(***************************************************************************)
EXTENDS Integers, Sequences, FiniteSets, TLC

VARIABLES
    pc,     \* the step the driver has just taken
    a,      \* Key: left operand of a comparison
    b,      \* Key: right operand of a comparison
    c,      \* Key: third key, for transitivity
    val,    \* Cbor: the value handed to Basic::try_from
    basic,  \* Result<Basic>: what try_from returned
    cur,    \* &dyn Node: the node a caller currently holds
    kdict,  \* BTreeMap<Key, Box<dyn Node>> built by a caller
    key,    \* Key passed to the last get
    res     \* result of the last operation

vars == <<pc, a, b, c, val, basic, cur, kdict, key, res>>

(***************************************************************************)
(* Bounds of the model.                                                    *)
(***************************************************************************)
MaxKeyLen == 2      \* longest Text / Bytes payload of a key under comparison
MaxOff == 2         \* largest small Offset payload
MaxNodes == 3       \* most nodes of a Cbor input tree
MaxInserts == 3     \* most insert calls on a caller-built map
MaxListLen == 3     \* longest list indexed by arbitrary keys
MaxTextLen == 2     \* longest enumerated Text key used to index a list

(***************************************************************************)
(* Machine integers as limbs.                                              *)
(***************************************************************************)
LimbBase == 2 ^ 16
LimbMax == LimbBase - 1

\* a small natural as a usize
U(n) == <<0, 0, 0, n>>

\* the set of all sequences over S of length 0..n
RECURSIVE SeqsUpTo(_, _)
SeqsUpTo(S, n) ==
    IF n = 0 THEN {<<>>}
    ELSE LET shorter == SeqsUpTo(S, n - 1)
         IN  shorter \cup {Append(s, x) : s \in {t \in shorter : Len(t) = n - 1}, x \in S}

\* Ord for u32 / u8: the three-way comparison of two integers
int_cmp(x, y) == IF x < y THEN "Less" ELSE IF x > y THEN "Greater" ELSE "Equal"

\* Ord for [u8] and str: lexicographic, a proper prefix is Less
RECURSIVE slice_cmp(_, _)
slice_cmp(x, y) ==
    IF x = <<>> /\ y = <<>> THEN "Equal"
    ELSE IF x = <<>> THEN "Less"
    ELSE IF y = <<>> THEN "Greater"
    ELSE IF Head(x) # Head(y) THEN int_cmp(Head(x), Head(y))
    ELSE slice_cmp(Tail(x), Tail(y))

\* Ord for usize: numeric order, on limbs of equal count from the top down
usize_cmp(x, y) == slice_cmp(x, y)

(***************************************************************************)
(* Key                                                                     *)
(***************************************************************************)
KeyNull == <<"Null", <<>>>>
KeyBool(v) == <<"Bool", v>>
KeyOffset(v) == <<"Offset", v>>
KeyText(v) == <<"Text", v>>
KeyBytes(v) == <<"Bytes", v>>

\* impl PartialEq for Key
eq(self, other) ==
    CASE self[1] = "Null" /\ other[1] = "Null" -> TRUE
      [] self[1] = "Bool" /\ other[1] = "Bool" -> self[2] = other[2]
      [] self[1] = "Offset" /\ other[1] = "Offset" -> self[2] = other[2]
      [] self[1] = "Text" /\ other[1] = "Text" -> self[2] = other[2]
      [] self[1] = "Bytes" /\ other[1] = "Bytes" -> self[2] = other[2]
      [] OTHER -> FALSE

\* Key::to_variant
to_variant(self) ==
    CASE self[1] = "Null" -> 10
      [] self[1] = "Bool" -> 20
      [] self[1] = "Offset" -> 30
      [] self[1] = "Text" -> 40
      [] self[1] = "Bytes" -> 50

\* impl Ord for Key; "Unreachable" is the panic of the unreachable!() arm
cmp(self, other) ==
    LET cval == int_cmp(to_variant(self), to_variant(other))
    IN  IF cval = "Equal"
        THEN CASE self[1] = "Null" /\ other[1] = "Null" -> "Equal"
               [] self = KeyBool(FALSE) /\ other = KeyBool(TRUE) -> "Less"
               [] self = KeyBool(TRUE) /\ other = KeyBool(FALSE) -> "Greater"
               [] self[1] = "Offset" /\ other[1] = "Offset" -> usize_cmp(self[2], other[2])
               [] self[1] = "Text" /\ other[1] = "Text" -> slice_cmp(self[2], other[2])
               [] self[1] = "Bytes" /\ other[1] = "Bytes" -> slice_cmp(self[2], other[2])
               [] OTHER -> "Unreachable"
        ELSE cval

\* impl PartialOrd for Key
partial_cmp(self, other) == <<"Some", cmp(self, other)>>

(***************************************************************************)
(* Machine arithmetic on limbs (most significant limb first).              *)
(***************************************************************************)
\* x + 1, wrapping at the width of x
RECURSIVE wrapping_inc(_)
wrapping_inc(x) ==
    IF x = <<>> THEN <<>>
    ELSE LET n == Len(x)
             front == SubSeq(x, 1, n - 1)
         IN  IF x[n] < LimbMax THEN Append(front, x[n] + 1)
             ELSE Append(wrapping_inc(front), 0)

\* !x
bit_not(x) == [i \in 1..Len(x) |-> LimbMax - x[i]]

\* the sign bit of a two's complement word
is_negative(x) == x[1] >= LimbBase \div 2

\* i128 + 1; overflow past i128::MAX panics (debug) or wraps (release)
i128_add_one(x) ==
    LET r == wrapping_inc(x)
    IN  IF ~is_negative(x) /\ is_negative(r) THEN <<"Overflow", r>> ELSE <<"Ok", r>>

\* -x on i128; only i128::MIN overflows
i128_neg(x) ==
    LET r == wrapping_inc(bit_not(x))
    IN  IF is_negative(x) /\ is_negative(r) THEN <<"Overflow", r>> ELSE <<"Ok", r>>

\* i128::from(u64): zero extension
i128_from(num) == <<0, 0, 0, 0>> \o num

\* x * m + d on limbs: <<low limbs, carry out>>
RECURSIVE mul_add(_, _, _)
mul_add(x, m, d) ==
    IF x = <<>> THEN <<<<>>, d>>
    ELSE LET n == Len(x)
             t == x[n] * m + d
             rest == mul_add(SubSeq(x, 1, n - 1), m, t \div LimbBase)
         IN  <<Append(rest[1], t % LimbBase), rest[2]>>

(***************************************************************************)
(* Results, options and errors.                                            *)
(***************************************************************************)
None == <<"None", <<>>>>
Some(x) == <<"Some", x>>
Ok(x) == <<"Ok", x>>
Err(kind) == <<"Err", kind>>
Panic(what) == <<"Panic", what>>

(***************************************************************************)
(* str::parse::<usize>(), as called by the list container.                 *)
(***************************************************************************)
Ascii == [plus |-> 43, minus |-> 45, zero |-> 48, one |-> 49, two |-> 50, nine |-> 57,
          a |-> 97, b |-> 98, x |-> 120]
Plus == Ascii.plus
Minus == Ascii.minus
Digit0 == Ascii.zero
Digit9 == Ascii.nine

RECURSIVE parse_digits(_, _)
parse_digits(digits, acc) ==
    IF digits = <<>> THEN Ok(acc)
    ELSE IF Head(digits) < Digit0 \/ Head(digits) > Digit9 THEN Err("InvalidDigit")
    ELSE LET r == mul_add(acc, 10, Head(digits) - Digit0)
         IN  IF r[2] # 0 THEN Err("PosOverflow")
             ELSE parse_digits(Tail(digits), r[1])

parse_usize(src) ==
    IF src = <<>> THEN Err("Empty")
    ELSE IF Head(src) \in {Plus, Minus} /\ Tail(src) = <<>> THEN Err("InvalidDigit")
    ELSE IF Head(src) = Plus THEN parse_digits(Tail(src), U(0))
    ELSE parse_digits(src, U(0))

(***************************************************************************)
(* Basic: <<"Null", <<>>>>, <<"Bool", b>>, <<"Integer", i128>>,            *)
(* <<"Float", f>>, <<"Text", bytes>>, <<"Bytes", bytes>>, <<"Link", cid>>, *)
(* <<"List", Vec>>, <<"Map", BTreeMap>>.  A Vec is the sequence of its     *)
(* elements; a BTreeMap is the sequence of its <<key, value>> entries in   *)
(* the order the tree keeps them.                                          *)
(***************************************************************************)
ScalarKinds == {"Null", "Bool", "Integer", "Float", "Text", "Bytes", "Link"}

\* BTreeMap search: keys are scanned in tree order, key.cmp(stored) each
RECURSIVE search_tree(_, _, _)
search_tree(map, k, i) ==
    IF i > Len(map) THEN <<"GoDown", i>>
    ELSE LET ord == cmp(k, map[i][1])
         IN  CASE ord = "Greater" -> search_tree(map, k, i + 1)
               [] ord = "Equal" -> <<"Found", i>>
               [] ord = "Less" -> <<"GoDown", i>>
               [] OTHER -> <<"Panic", i>>

\* mutant: an occupied entry keeps its value (first write wins)
btreemap_insert_keep(map, k, v) ==
    LET at == search_tree(map, k, 1)
        i == at[2]
    IN  CASE at[1] = "Found" -> Ok(map)
          [] at[1] = "GoDown" ->
                Ok(SubSeq(map, 1, i - 1) \o <<<<k, v>>>> \o SubSeq(map, i, Len(map)))
          [] OTHER -> Panic("unreachable")

\* mutant: a new entry goes last, whatever its key
btreemap_insert_last(map, k, v) ==
    LET at == search_tree(map, k, 1)
        i == at[2]
    IN  CASE at[1] = "Found" -> Ok([map EXCEPT ![i] = <<map[i][1], v>>])
          [] at[1] = "GoDown" -> Ok(Append(map, <<k, v>>))
          [] OTHER -> Panic("unreachable")

\* BTreeMap::insert: an occupied entry keeps its key and takes the new value
btreemap_insert(map, k, v) ==
    LET at == search_tree(map, k, 1)
        i == at[2]
    IN  CASE at[1] = "Found" -> Ok([map EXCEPT ![i] = <<map[i][1], v>>])
          [] at[1] = "GoDown" ->
                Ok(SubSeq(map, 1, i - 1) \o <<<<k, v>>>> \o SubSeq(map, i, Len(map)))
          [] OTHER -> Panic("unreachable")

\* impl Node for BTreeMap<Key, Box<dyn Node>>
btreemap_get(self, k) ==
    LET at == search_tree(self, k, 1)
    IN  CASE at[1] = "Found" -> Ok(self[at[2]][2])
          [] at[1] = "GoDown" -> Err("IndexFail")
          [] OTHER -> Panic("unreachable")

btreemap_iter(self) == [i \in 1..Len(self) |-> self[i][2]]

btreemap_iter_entries(self) == [i \in 1..Len(self) |-> <<self[i][1], self[i][2]>>]

btreemap_len(self) == Some(Len(self))

\* mutant: positions counted from one
slice_get_from_one(self, off) ==
    IF off[1] = 0 /\ off[2] = 0 /\ off[3] = 0 /\ 1 <= off[4] /\ off[4] <= Len(self)
    THEN <<"Some", self[off[4]]>>
    ELSE <<"None", <<>>>>

\* slice::get(off): in range iff off < len
slice_get(self, off) ==
    IF off[1] = 0 /\ off[2] = 0 /\ off[3] = 0 /\ off[4] < Len(self)
    THEN Some(self[off[4] + 1])
    ELSE None

\* impl Node for Vec<Box<dyn Node>>
vec_get_offset(self, off) ==
    LET got == slice_get(self, off)
    IN  IF got[1] = "Some" THEN Ok(got[2]) ELSE Err("IndexFail")

\* mutant: a text that does not parse is reported as a missing offset
vec_get_parse_index_fail(self, k) ==
    CASE k[1] = "Offset" -> vec_get_offset(self, k[2])
      [] k[1] = "Text" ->
            LET off == parse_usize(k[2])
            IN  IF off[1] = "Ok" THEN vec_get_offset(self, off[2])
                ELSE <<"Err", "IndexFail">>
      [] OTHER -> <<"Err", "IndexFail">>

vec_get(self, k) ==
    CASE k[1] = "Offset" -> vec_get_offset(self, k[2])
      [] k[1] = "Text" ->
            LET off == parse_usize(k[2])
            IN  IF off[1] = "Ok" THEN vec_get_offset(self, off[2])
                ELSE Err("FailConvert")
      [] OTHER -> Err("IndexFail")

vec_iter(self) == [i \in 1..Len(self) |-> self[i]]

vec_iter_entries(self) == [i \in 1..Len(self) |-> <<KeyOffset(U(i - 1)), self[i]>>]

vec_len(self) == Some(Len(self))

\* impl Node for Basic
to_kind(self) == self[1]

\* mutant: a scalar reports the conversion error
basic_get_scalar_convert(self, k) ==
    CASE self[1] = "List" -> vec_get(self[2], k)
      [] self[1] = "Map" -> btreemap_get(self[2], k)
      [] OTHER -> <<"Err", "FailConvert">>

basic_get(self, k) ==
    CASE self[1] = "List" -> vec_get(self[2], k)
      [] self[1] = "Map" -> btreemap_get(self[2], k)
      [] OTHER -> Err("IndexFail")

basic_iter(self) ==
    CASE self[1] = "List" -> vec_iter(self[2])
      [] self[1] = "Map" -> btreemap_iter(self[2])
      [] OTHER -> <<>>

basic_iter_entries(self) ==
    CASE self[1] = "List" -> vec_iter_entries(self[2])
      [] self[1] = "Map" -> btreemap_iter_entries(self[2])
      [] OTHER -> <<>>

basic_len(self) ==
    CASE self[1] = "List" -> vec_len(self[2])
      [] self[1] = "Map" -> btreemap_len(self[2])
      [] OTHER -> None

is_null(self) == self[1] = "Null"

to_bool(self) == IF self[1] = "Bool" THEN Some(self[2]) ELSE None

to_integer(self) == IF self[1] = "Integer" THEN Some(self[2]) ELSE None

(***************************************************************************)
(* Cbor, as try_from destructures it: <<"Major0", u64>>, <<"Major1", u64>>,*)
(* <<"Major2", bytes>>, <<"Major3", text>>, <<"Major4", items>>,           *)
(* <<"Major5", pairs>> with pairs a sequence of <<text, Cbor>>,            *)
(* <<"Major6", <<"Link", cid>>>>, <<"Major7", <<simple value, payload>>>>. *)
(* A float is held as twice its value.                                     *)
(***************************************************************************)
FailingSimple == {"Unassigned", "Undefined", "Reserved24", "F16", "Break"}

\* Major0 arm
convert_major0(num) == Ok(<<"Integer", i128_from(num)>>)

\* mutant: the successor taken in 64 bits before widening
convert_major1_u64(num) ==
    Ok(<<"Integer", i128_neg(i128_from(wrapping_inc(num)))[2]>>)

\* Major1 arm: -(i128::from(num) + 1)
convert_major1(num) ==
    LET succ == i128_add_one(i128_from(num))
        neg == i128_neg(succ[2])
    IN  IF succ[1] = "Ok" /\ neg[1] = "Ok" THEN Ok(<<"Integer", neg[2]>>)
        ELSE Panic("overflow")

\* Major7 arms
convert_major7(sval) ==
    CASE sval[1] = "Unassigned" -> Err("FailConvert")
      [] sval[1] = "True" -> Ok(<<"Bool", TRUE>>)
      [] sval[1] = "False" -> Ok(<<"Bool", FALSE>>)
      [] sval[1] = "Null" -> Ok(<<"Null", <<>>>>)
      [] sval[1] = "Undefined" -> Err("FailConvert")
      [] sval[1] = "Reserved24" -> Err("FailConvert")
      [] sval[1] = "F16" -> Err("FailConvert")
      [] sval[1] = "F32" -> Ok(<<"Float", sval[2]>>)
      [] sval[1] = "F64" -> Ok(<<"Float", sval[2]>>)
      [] sval[1] = "Break" -> Err("FailConvert")

RECURSIVE try_from(_)
RECURSIVE major4_loop(_, _)
RECURSIVE major5_loop(_, _)

\* Major4 arm: push each converted item, `?` returns the first failure
major4_loop(list, klist) ==
    IF list = <<>> THEN Ok(<<"List", klist>>)
    ELSE LET item == try_from(Head(list))
         IN  IF item[1] # "Ok" THEN item
             ELSE major4_loop(Tail(list), Append(klist, item[2]))

\* mutant: a value that fails to convert is skipped
major5_loop_skip(dict, kdict0) ==
    IF dict = <<>> THEN Ok(<<"Map", kdict0>>)
    ELSE LET v == try_from(Head(dict)[2])
         IN  IF v[1] # "Ok" THEN major5_loop(Tail(dict), kdict0)
             ELSE major5_loop(Tail(dict),
                              btreemap_insert(kdict0, KeyText(Head(dict)[1]), v[2])[2])

\* Major5 arm: insert each converted value at Key::Text(k)
major5_loop(dict, kdict0) ==
    IF dict = <<>> THEN Ok(<<"Map", kdict0>>)
    ELSE LET v == try_from(Head(dict)[2])
         IN  IF v[1] # "Ok" THEN v
             ELSE LET ins == btreemap_insert(kdict0, KeyText(Head(dict)[1]), v[2])
                  IN  IF ins[1] # "Ok" THEN ins
                      ELSE major5_loop(Tail(dict), ins[2])

\* impl TryFrom<Cbor> for Basic
try_from(v) ==
    CASE v[1] = "Major0" -> convert_major0(v[2])
      [] v[1] = "Major1" -> convert_major1(v[2])
      [] v[1] = "Major2" -> Ok(<<"Bytes", v[2]>>)
      [] v[1] = "Major3" -> Ok(<<"Text", v[2]>>)
      [] v[1] = "Major4" -> major4_loop(v[2], <<>>)
      [] v[1] = "Major5" -> major5_loop(v[2], <<>>)
      [] v[1] = "Major6" -> Ok(<<"Link", v[2][2]>>)
      [] v[1] = "Major7" -> convert_major7(v[2])

(***************************************************************************)
(* Inputs.                                                                 *)
(***************************************************************************)
TextBytes == {Ascii.a, Ascii.b}
RawBytes == {0, 255}

\* keys handed to cmp / eq
CmpKeys ==
    {KeyNull, KeyBool(FALSE), KeyBool(TRUE), KeyOffset(<<0, 1, 0, 0>>)}
    \cup {KeyOffset(U(n)) : n \in 0..MaxOff}
    \cup {KeyText(s) : s \in SeqsUpTo(TextBytes, MaxKeyLen)}
    \cup {KeyBytes(s) : s \in SeqsUpTo(RawBytes, MaxKeyLen)}

\* u64 payloads of Major0 / Major1
LimbSamples == {0, 5, 42, LimbMax}
U64Samples == {<<l1, l2, l3, l4>> : l1 \in LimbSamples, l2 \in LimbSamples,
                                    l3 \in LimbSamples, l4 \in LimbSamples}

\* Cbor leaves: one of every arm of try_from that is not a container
GoodLeaves ==
    {<<"Major0", U(5)>>, <<"Major2", <<1, 2>>>>, <<"Major3", <<Ascii.x>>>>,
     <<"Major6", <<"Link", 1>>>>, <<"Major7", <<"True", 0>>>>,
     <<"Major7", <<"Null", 0>>>>, <<"Major7", <<"F64", 3>>>>}
AllLeaves ==
    GoodLeaves
    \cup {<<"Major1", U(5)>>, <<"Major7", <<"False", 0>>>>, <<"Major7", <<"F32", 3>>>>}
    \cup {<<"Major7", <<sv, 0>>>> : sv \in FailingSimple}

\* text keys of Major5 pairs
DictKeys == {<<Ascii.a>>, <<Ascii.b>>}

\* number of nodes of a Cbor tree
RECURSIVE Size(_)
RECURSIVE SizeAll(_)
Size(v) ==
    CASE v[1] = "Major4" -> 1 + SizeAll(v[2])
      [] v[1] = "Major5" -> 1 + SizeAll([i \in 1..Len(v[2]) |-> v[2][i][2]])
      [] OTHER -> 1
SizeAll(vs) == IF vs = <<>> THEN 0 ELSE Size(Head(vs)) + SizeAll(Tail(vs))

\* all Cbor trees of at most n nodes over the given leaves
RECURSIVE TreesUpTo(_, _)
RECURSIVE ItemsUpTo(_, _)
RECURSIVE PairsUpTo(_, _)
TreesUpTo(n, leaves) ==
    IF n = 0 THEN {}
    ELSE leaves
         \cup {<<"Major4", items>> : items \in ItemsUpTo(n - 1, leaves)}
         \cup {<<"Major5", pairs>> : pairs \in PairsUpTo(n - 1, leaves)}
ItemsUpTo(n, leaves) ==
    {<<>>} \cup UNION {{<<t>> \o rest : rest \in ItemsUpTo(n - Size(t), leaves)} :
                       t \in TreesUpTo(n, leaves)}
PairsUpTo(n, leaves) ==
    {<<>>} \cup UNION {{<<<<k, t>>>> \o rest : k \in DictKeys,
                                             rest \in PairsUpTo(n - Size(t), leaves)} :
                       t \in TreesUpTo(n, leaves)}

\* keys handed to get on a converted tree
TreeKeys ==
    {KeyNull, KeyBool(TRUE), KeyOffset(<<0, 0, 1, 0>>), KeyBytes(<<Ascii.a>>),
     KeyText(<<Ascii.zero>>)}
    \cup {KeyOffset(U(n)) : n \in 0..(MaxNodes - 1)}
    \cup {KeyText(k) : k \in DictKeys}

\* lists indexed by arbitrary keys, and the keys
ListItems == {<<"Major0", U(1)>>, <<"Major7", <<"True", 0>>>>}
ListChars == {Ascii.zero, Ascii.one, Ascii.two, Ascii.plus, Ascii.minus, Ascii.x}
UsizeMaxDigits == <<1, 8, 4, 4, 6, 7, 4, 4, 0, 7, 3, 7, 0, 9, 5, 5, 1, 6, 1, 5>>
AsText(digits) == [i \in 1..Len(digits) |-> Digit0 + digits[i]]
LongTexts ==
    {AsText(UsizeMaxDigits),
     AsText(SubSeq(UsizeMaxDigits, 1, 19) \o <<6>>),
     AsText(<<0, 0, 0>> \o UsizeMaxDigits),
     AsText(SubSeq(UsizeMaxDigits, 1, 19)),
     AsText(<<0, 0, 0, 0, 0, 0, 0, 0, 0, 0, 0, 0, 0, 0, 0, 0, 0, 0, 0, 0, 0, 0, 1>>),
     AsText(<<9, 9, 9, 9, 9, 9, 9, 9, 9, 9, 9, 9, 9, 9, 9, 9, 9, 9, 9, 9, 9, 9>>),
     <<Plus>> \o AsText(UsizeMaxDigits \o <<0>>),
     AsText(<<6, 5, 5, 3, 6>>)}
ListKeys ==
    {KeyNull, KeyBool(FALSE), KeyBool(TRUE), KeyBytes(<<>>), KeyBytes(<<Ascii.one>>),
     KeyOffset(<<0, 0, 1, 0>>), KeyOffset(<<1, 0, 0, 0>>)}
    \cup {KeyOffset(U(n)) : n \in 0..(MaxListLen + 1)}
    \cup {KeyText(s) : s \in SeqsUpTo(ListChars, MaxTextLen) \cup LongTexts}

\* keys and values a caller inserts into a map of its own
MapKeys ==
    {KeyNull, KeyBool(FALSE), KeyBool(TRUE), KeyOffset(U(1)), KeyText(<<Ascii.one>>),
     KeyText(<<Ascii.a>>), KeyBytes(<<Ascii.one>>)}
MapVals == {<<"Integer", i128_from(U(7))>>, <<"Text", <<Ascii.x>>>>}

(***************************************************************************)
(* Operations.                                                             *)
(***************************************************************************)
\* a.cmp(&b)
Cmp ==
    /\ pc = "start"
    /\ pc' = "cmp"
    /\ res' = cmp(a, b)
    /\ UNCHANGED <<a, b, c, val, basic, cur, kdict, key>>

\* a == b
Eq ==
    /\ pc = "start"
    /\ pc' = "eq"
    /\ res' = eq(a, b)
    /\ UNCHANGED <<a, b, c, val, basic, cur, kdict, key>>

\* a.partial_cmp(&b)
PartialCmp ==
    /\ pc = "start"
    /\ pc' = "partial_cmp"
    /\ res' = partial_cmp(a, b)
    /\ UNCHANGED <<a, b, c, val, basic, cur, kdict, key>>

\* Basic::try_from(val); on Ok the caller holds the root
TryFrom ==
    /\ pc = "start"
    /\ pc' = "try_from"
    /\ basic' = try_from(val)
    /\ cur' = IF basic'[1] = "Ok" THEN basic'[2] ELSE cur
    /\ UNCHANGED <<a, b, c, val, kdict, key, res>>

Holding == pc # "start" /\ basic[1] = "Ok"

\* cur.to_kind()
ToKind ==
    /\ Holding
    /\ pc' = "to_kind"
    /\ res' = to_kind(cur)
    /\ key' = None
    /\ UNCHANGED <<a, b, c, val, basic, cur, kdict>>

\* cur.to_integer()
ToInteger ==
    /\ Holding
    /\ pc' = "to_integer"
    /\ res' = to_integer(cur)
    /\ key' = None
    /\ UNCHANGED <<a, b, c, val, basic, cur, kdict>>

\* cur.get(&k) for a key of the given set
GetWith(keys) ==
    \E k \in keys :
        /\ Holding
        /\ pc' = "get"
        /\ key' = k
        /\ res' = basic_get(cur, k)
        /\ UNCHANGED <<a, b, c, val, basic, cur, kdict>>

Get == GetWith(TreeKeys)

ListGet == GetWith(ListKeys)

\* the caller keeps the reference a successful get returned
Follow ==
    /\ pc = "get"
    /\ res[1] = "Ok"
    /\ pc' = "follow"
    /\ cur' = res[2]
    /\ key' = None
    /\ res' = None
    /\ UNCHANGED <<a, b, c, val, basic, kdict>>

\* cur.iter().collect()
Iter ==
    /\ Holding
    /\ pc' = "iter"
    /\ res' = basic_iter(cur)
    /\ key' = None
    /\ UNCHANGED <<a, b, c, val, basic, cur, kdict>>

\* cur.iter_entries().collect()
IterEntries ==
    /\ Holding
    /\ pc' = "iter_entries"
    /\ res' = basic_iter_entries(cur)
    /\ key' = None
    /\ UNCHANGED <<a, b, c, val, basic, cur, kdict>>

\* cur.len()
LenOf ==
    /\ Holding
    /\ pc' = "len"
    /\ res' = basic_len(cur)
    /\ key' = None
    /\ UNCHANGED <<a, b, c, val, basic, cur, kdict>>

\* kdict.insert(k, v) by a caller; a panic ends the run
Insert ==
    \E k \in MapKeys, v \in MapVals :
        /\ pc \in {"start", "insert", "get", "entries"}
        /\ res[1] # "Panic"
        /\ Len(kdict) < MaxInserts
        /\ LET r == btreemap_insert(kdict, k, v)
           IN  /\ kdict' = IF r[1] = "Ok" THEN r[2] ELSE kdict
               /\ res' = IF r[1] = "Ok" THEN None ELSE r
        /\ pc' = "insert"
        /\ key' = k
        /\ UNCHANGED <<a, b, c, val, basic, cur>>

\* Node::get(&kdict, &k) on the caller's map
MapGet ==
    \E k \in MapKeys :
        /\ pc \in {"start", "insert", "get", "entries"}
        /\ res[1] # "Panic"
        /\ pc' = "get"
        /\ key' = k
        /\ res' = btreemap_get(kdict, k)
        /\ UNCHANGED <<a, b, c, val, basic, cur, kdict>>

\* Node::iter_entries(&kdict).collect()
MapIterEntries ==
    /\ pc \in {"start", "insert", "get", "entries"}
    /\ res[1] # "Panic"
    /\ pc' = "entries"
    /\ key' = None
    /\ res' = Ok(btreemap_iter_entries(kdict))
    /\ UNCHANGED <<a, b, c, val, basic, cur, kdict>>

(***************************************************************************)
(* Specifications: one per family of inputs.                               *)
(***************************************************************************)
Untouched ==
    /\ pc = "start"
    /\ basic = None
    /\ cur = None
    /\ kdict = <<>>
    /\ key = None
    /\ res = None

\* key comparison
InitKey ==
    /\ Untouched
    /\ a \in CmpKeys /\ b \in CmpKeys /\ c \in CmpKeys
    /\ val = None
NextKey == Cmp \/ Eq \/ PartialCmp
SpecKey == InitKey /\ [][NextKey]_vars

\* integer conversion
InitInt ==
    /\ Untouched
    /\ a = KeyNull /\ b = KeyNull /\ c = KeyNull
    /\ val \in {<<m, n>> : m \in {"Major0", "Major1"}, n \in U64Samples}
NextInt == TryFrom \/ ToKind \/ ToInteger
SpecInt == InitInt /\ [][NextInt]_vars

\* conversion of every kind of tree
InitConv ==
    /\ Untouched
    /\ a = KeyNull /\ b = KeyNull /\ c = KeyNull
    /\ val \in TreesUpTo(MaxNodes, AllLeaves)
NextConv == TryFrom \/ ToKind
SpecConv == InitConv /\ [][NextConv]_vars

\* traversal of a converted tree
InitTree ==
    /\ Untouched
    /\ a = KeyNull /\ b = KeyNull /\ c = KeyNull
    /\ val \in TreesUpTo(MaxNodes, GoodLeaves)
NextTree == TryFrom \/ Get \/ Follow \/ Iter \/ IterEntries \/ LenOf
SpecTree == InitTree /\ [][NextTree]_vars

\* a converted list indexed by arbitrary keys
InitList ==
    /\ Untouched
    /\ a = KeyNull /\ b = KeyNull /\ c = KeyNull
    /\ val \in {<<"Major4", items>> : items \in SeqsUpTo(ListItems, MaxListLen)}
NextList == TryFrom \/ ListGet
SpecList == InitList /\ [][NextList]_vars

\* a map built by a caller with keys of every variant
InitMap ==
    /\ Untouched
    /\ a = KeyNull /\ b = KeyNull /\ c = KeyNull
    /\ val = None
NextMap == Insert \/ MapGet \/ MapIterEntries
SpecMap == InitMap /\ [][NextMap]_vars

(***************************************************************************)
(* The order the Key contract prescribes, stated without cmp.              *)
(***************************************************************************)
RankOf(k) ==
    CASE k[1] = "Null" -> 10
      [] k[1] = "Bool" -> 20
      [] k[1] = "Offset" -> 30
      [] k[1] = "Text" -> 40
      [] k[1] = "Bytes" -> 50

\* x precedes y lexicographically (for limbs of equal count: numerically)
LexLess(x, y) ==
    \E i \in 1..(Len(x) + 1) :
        /\ i <= Len(y)
        /\ \A j \in 1..(i - 1) : x[j] = y[j]
        /\ (i = Len(x) + 1 \/ x[i] < y[i])

PayloadLess(x, y) ==
    CASE x[1] = "Null" -> FALSE
      [] x[1] = "Bool" -> x[2] = FALSE /\ y[2] = TRUE
      [] OTHER -> LexLess(x[2], y[2])

KeyLess(x, y) ==
    \/ RankOf(x) < RankOf(y)
    \/ RankOf(x) = RankOf(y) /\ PayloadLess(x, y)

KeyOrder(x, y) ==
    IF KeyLess(x, y) THEN "Less" ELSE IF KeyLess(y, x) THEN "Greater" ELSE "Equal"

Flip(ord) ==
    CASE ord = "Less" -> "Greater"
      [] ord = "Greater" -> "Less"
      [] OTHER -> ord

(***************************************************************************)
(* Claims on Key.                                                          *)
(***************************************************************************)
\* C1: cmp is a total order over all keys: a.cmp(b) is the Ordering decided by
\* rank Null < Bool < Offset < Text < Bytes and then by payload, for every
\* pair including a = b; it is antisymmetric and transitive, it is Equal
\* exactly when a == b, and Key::Null is the unique minimum.
C1_TotalOrder ==
    pc = "cmp" =>
        /\ res = KeyOrder(a, b)
        /\ cmp(b, a) = Flip(res)
        /\ (res \in {"Less", "Equal"} /\ cmp(b, c) \in {"Less", "Equal"}
                => cmp(a, c) \in {"Less", "Equal"})
        /\ (res = "Less" /\ cmp(b, c) = "Less" => cmp(a, c) = "Less")
        /\ (res = "Equal" <=> eq(a, b))
        /\ (a = KeyNull /\ b # KeyNull => res = "Less")
        /\ (a = KeyNull /\ b = KeyNull => res = "Equal")

\* C2: no pair of keys reaches the unreachable!() arm of cmp: comparing any
\* two keys, two keys of one variant with equal payloads included, returns an
\* Ordering.
C2_NeverUnreachable ==
    pc = "cmp" => res \in {"Less", "Equal", "Greater"}

(***************************************************************************)
(* Claims on integer conversion.                                           *)
(***************************************************************************)
\* the i128 word of the value the codec encodes: n itself for Major0; for
\* Major1 the value -(n + 1), whose two's complement word 2^128 - 1 - n has
\* every limb the complement of the limb of n
EncodedInteger(v) ==
    IF v[1] = "Major0"
    THEN [i \in 1..8 |-> IF i <= 4 THEN 0 ELSE v[2][i - 4]]
    ELSE [i \in 1..8 |-> IF i <= 4 THEN LimbMax ELSE LimbMax - v[2][i - 4]]

\* -2^64 <= w <= 2^64 - 1: the high 64 bits repeat the sign
InI65Range(w) ==
    \/ \A i \in 1..4 : w[i] = 0
    \/ \A i \in 1..4 : w[i] = LimbMax

\* C4: Major0 with value n converts to Integer(n) and Major1 with magnitude n
\* to Integer(-(n + 1)), exactly and without overflow for every 64-bit n; the
\* result lies in [-2^64, 2^64 - 1], to_kind() is Integer and to_integer()
\* returns that value.
C4_IntegerConversion ==
    /\ pc # "start" =>
          /\ basic = Ok(<<"Integer", EncodedInteger(val)>>)
          /\ InI65Range(basic[2][2])
          /\ (val[1] = "Major1" <=> is_negative(basic[2][2]))
    /\ pc = "to_kind" => res = "Integer"
    /\ pc = "to_integer" => res = Some(EncodedInteger(val))

\* magnitude 2^64 - 1 has been converted and read back as -2^64
C4_Witness ==
    /\ pc = "to_integer"
    /\ val = <<"Major1", <<LimbMax, LimbMax, LimbMax, LimbMax>>>>
    /\ res = Some(<<LimbMax, LimbMax, LimbMax, LimbMax, 0, 0, 0, 0>>)

(***************************************************************************)
(* Claims on conversion.                                                   *)
(***************************************************************************)
\* some node of the tree, at any depth, is a simple value try_from rejects
RECURSIVE HasFailing(_)
HasFailing(v) ==
    CASE v[1] = "Major7" -> v[2][1] \in FailingSimple
      [] v[1] = "Major4" -> \E i \in 1..Len(v[2]) : HasFailing(v[2][i])
      [] v[1] = "Major5" -> \E i \in 1..Len(v[2]) : HasFailing(v[2][i][2])
      [] OTHER -> FALSE

\* node n is a complete image of the Cbor tree v: every item of an array has
\* its image at the same position, every key of a map has the image of one of
\* its values, and no other child exists
RECURSIVE Mirrors(_, _)
Mirrors(v, n) ==
    CASE v[1] \in {"Major0", "Major1"} -> n[1] = "Integer"
      [] v[1] = "Major2" -> n = <<"Bytes", v[2]>>
      [] v[1] = "Major3" -> n = <<"Text", v[2]>>
      [] v[1] = "Major6" -> n = <<"Link", v[2][2]>>
      [] v[1] = "Major7" ->
            CASE v[2][1] = "True" -> n = <<"Bool", TRUE>>
              [] v[2][1] = "False" -> n = <<"Bool", FALSE>>
              [] v[2][1] = "Null" -> n = <<"Null", <<>>>>
              [] v[2][1] \in {"F32", "F64"} -> n = <<"Float", v[2][2]>>
              [] OTHER -> FALSE
      [] v[1] = "Major4" ->
            /\ n[1] = "List"
            /\ Len(n[2]) = Len(v[2])
            /\ \A i \in 1..Len(v[2]) : Mirrors(v[2][i], n[2][i])
      [] v[1] = "Major5" ->
            /\ n[1] = "Map"
            /\ {n[2][j][1] : j \in 1..Len(n[2])} = {KeyText(v[2][i][1]) : i \in 1..Len(v[2])}
            /\ \A j \in 1..Len(n[2]) :
                  \E i \in 1..Len(v[2]) :
                      /\ n[2][j][1] = KeyText(v[2][i][1])
                      /\ Mirrors(v[2][i][2], n[2][j][2])

\* C3: try_from returns FailConvert, and no Basic at all, if any node at any
\* depth is an Unassigned, Undefined, Reserved24, F16 or Break simple value,
\* and Ok with a complete tree otherwise.
C3_FailsAtomically ==
    pc # "start" =>
        IF HasFailing(val) THEN basic = Err("FailConvert")
        ELSE basic[1] = "Ok" /\ Mirrors(val, basic[2])

\* a map whose failing value has its key repeated later has been rejected
C3_Witness ==
    /\ pc = "try_from"
    /\ val = <<"Major5", <<<<<<Ascii.a>>, <<"Major7", <<"F16", 0>>>>>>,
                           <<<<Ascii.a>>, <<"Major7", <<"True", 0>>>>>>>>>>
    /\ basic = Err("FailConvert")

\* the position of the last pair of dict that carries text key k
LastIndex(dict, k) ==
    CHOOSE i \in 1..Len(dict) :
        /\ dict[i][1] = k
        /\ \A j \in (i + 1)..Len(dict) : dict[j][1] # k

\* C7: converting a codec map given as a sequence of (text key, value) pairs
\* yields a Map whose keys are unique and are exactly the distinct text keys
\* of the input, whose len() is their number, and which stores under each key
\* the conversion of the value of the last pair carrying that key.
C7_LastWriteWins ==
    pc # "start" /\ val[1] = "Major5" =>
        LET dict == val[2]
            m == basic[2][2]
            texts == {dict[i][1] : i \in 1..Len(dict)}
        IN  /\ basic[1] = "Ok" /\ basic[2][1] = "Map"
            /\ {m[j][1] : j \in 1..Len(m)} = {KeyText(k) : k \in texts}
            /\ \A i, j \in 1..Len(m) : m[i][1] = m[j][1] => i = j
            /\ basic_len(basic[2]) = Some(Cardinality(texts))
            /\ (pc = "len" /\ cur = basic[2] => res = Some(Cardinality(texts)))
            /\ \A k \in texts :
                  basic_get(basic[2], KeyText(k)) = try_from(dict[LastIndex(dict, k)][2])

\* a map given with one key twice has been converted and measured
C7_Witness ==
    /\ pc = "len"
    /\ val = <<"Major5", <<<<<<Ascii.a>>, <<"Major7", <<"Null", 0>>>>>>,
                           <<<<Ascii.a>>, <<"Major7", <<"True", 0>>>>>>>>>>
    /\ basic = Ok(<<"Map", <<<<KeyText(<<Ascii.a>>), <<"Bool", TRUE>>>>>>>>)
    /\ res = Some(1)

(***************************************************************************)
(* Claims on traversal and lookup.                                         *)
(***************************************************************************)
\* the rearrangements of a sequence
Rearrangements(s) ==
    LET n == Len(s)
    IN  {[i \in 1..n |-> s[f[i]]] :
            f \in {g \in [1..n -> 1..n] : \A i, j \in 1..n : g[i] = g[j] => i = j}}

\* C8: iter_entries() on a List of length n yields (Offset(0), e0), ...,
\* (Offset(n-1), e(n-1)) in storage order, which for a converted array is the
\* order of the input items; on a Map it yields the entries in strictly
\* ascending Key order, so two codec maps with the same distinct-key pairs in
\* different orders yield the same entries.
C8_EntryOrdering ==
    /\ pc = "iter_entries" /\ cur[1] = "List" =>
          /\ Len(res) = Len(cur[2])
          /\ \A i \in 1..Len(res) : res[i] = <<<<"Offset", <<0, 0, 0, i - 1>>>>, cur[2][i]>>
    /\ pc # "start" /\ val[1] = "Major4" =>
          /\ Len(basic[2][2]) = Len(val[2])
          /\ \A i \in 1..Len(val[2]) : Ok(basic[2][2][i]) = try_from(val[2][i])
    /\ pc = "iter_entries" /\ cur[1] = "Map" =>
          /\ Len(res) = Len(cur[2])
          /\ \A i \in 1..Len(res) : res[i] = cur[2][i]
          /\ \A i, j \in 1..Len(res) : i < j => KeyLess(res[i][1], res[j][1])
    /\ pc # "start" /\ val[1] = "Major5"
       /\ (\A i, j \in 1..Len(val[2]) : val[2][i][1] = val[2][j][1] => i = j) =>
          \A other \in Rearrangements(val[2]) :
              LET converted == try_from(<<"Major5", other>>)
              IN  /\ converted[1] = "Ok"
                  /\ basic_iter_entries(converted[2]) = basic_iter_entries(basic[2])

\* a map given as (b, a) has been traversed as (a, b)
C8_Witness ==
    /\ pc = "iter_entries"
    /\ val = <<"Major5", <<<<<<Ascii.b>>, <<"Major7", <<"Null", 0>>>>>>,
                           <<<<Ascii.a>>, <<"Major7", <<"True", 0>>>>>>>>>>
    /\ res = <<<<KeyText(<<Ascii.a>>), <<"Bool", TRUE>>>>,
               <<KeyText(<<Ascii.b>>), <<"Null", <<>>>>>>>>

\* C9: a Basic of a scalar kind answers get with IndexFail for every key,
\* iter() and iter_entries() with nothing and len() with None; a Basic::List
\* or Basic::Map answers each of the four as its container does.
C9_ScalarIndexing ==
    pc # "start" /\ basic[1] = "Ok" =>
        /\ cur[1] \in ScalarKinds =>
              /\ pc = "get" => res = <<"Err", "IndexFail">>
              /\ pc = "iter" => res = <<>>
              /\ pc = "iter_entries" => res = <<>>
              /\ pc = "len" => res = <<"None", <<>>>>
        /\ cur[1] = "List" =>
              /\ pc = "get" => res = vec_get(cur[2], key)
              /\ pc = "iter" => res = vec_iter(cur[2])
              /\ pc = "iter_entries" => res = vec_iter_entries(cur[2])
              /\ pc = "len" => res = vec_len(cur[2])
        /\ cur[1] = "Map" =>
              /\ pc = "get" => res = btreemap_get(cur[2], key)
              /\ pc = "iter" => res = btreemap_iter(cur[2])
              /\ pc = "iter_entries" => res = btreemap_iter_entries(cur[2])
              /\ pc = "len" => res = btreemap_len(cur[2])

\* a Link held inside a list has been indexed
C9_Witness ==
    /\ pc = "get"
    /\ val[1] = "Major4"
    /\ cur = <<"Link", 1>>
    /\ key = KeyText(<<Ascii.zero>>)
    /\ res = Err("IndexFail")

\* C10: on every List or Map node of a converted tree iter_entries() yields
\* len() pairs, iter() yields their second components in the same order,
\* get(k) of every yielded pair (k, n) returns n, and get(k) for an Offset
\* key, or a Text key on a Map, succeeds only for a yielded key.
C10_LookupAgreesWithTraversal ==
    pc # "start" /\ basic[1] = "Ok" /\ cur[1] \in {"List", "Map"} =>
        LET entries == basic_iter_entries(cur)
            yielded == {entries[i][1] : i \in 1..Len(entries)}
            indexing(k) == k[1] = "Offset" \/ (k[1] = "Text" /\ cur[1] = "Map")
        IN  /\ basic_len(cur) = Some(Len(entries))
            /\ Len(basic_iter(cur)) = Len(entries)
            /\ \A i \in 1..Len(entries) : basic_iter(cur)[i] = entries[i][2]
            /\ \A i \in 1..Len(entries) : basic_get(cur, entries[i][1]) = Ok(entries[i][2])
            /\ \A k \in TreeKeys : indexing(k) /\ basic_get(cur, k)[1] = "Ok" => k \in yielded
            /\ pc = "get" /\ res[1] = "Ok" /\ indexing(key) =>
                  \E i \in 1..Len(entries) : entries[i] = <<key, res[2]>>
            /\ pc = "get" /\ key \in yielded => res[1] = "Ok"

\* a map nested in an array has been reached and indexed by a yielded key
C10_Witness ==
    /\ pc = "get"
    /\ val[1] = "Major4"
    /\ cur = <<"Map", <<<<KeyText(<<Ascii.b>>), <<"Integer", i128_from(U(5))>>>>>>>>
    /\ key = KeyText(<<Ascii.b>>)
    /\ res = Ok(<<"Integer", i128_from(U(5))>>)

(***************************************************************************)
(* Claims on the map container.                                            *)
(***************************************************************************)
\* C5: get(key) on a map holding keys of any variant, for a key of any
\* variant, returns Ok with the stored node iff an equal key is present and
\* IndexFail otherwise; it never aborts and never returns the node of another
\* key.
C5_MapGet ==
    pc = "get" =>
        LET present == {i \in 1..Len(kdict) : kdict[i][1] = key}
        IN  IF present # {} THEN \E i \in present : res = Ok(kdict[i][2])
            ELSE res = Err("IndexFail")

(***************************************************************************)
(* Claims on the list container.                                           *)
(***************************************************************************)
IsDigit(ch) == Digit0 <= ch /\ ch <= Digit9

\* the digits of a numeric string: an optional "+" and one digit or more
Digits(s) == IF s # <<>> /\ Head(s) = Plus THEN Tail(s) ELSE s
IsNumeric(s) == Digits(s) # <<>> /\ \A i \in 1..Len(Digits(s)) : IsDigit(Digits(s)[i])

\* the value of a digit string, or cap if the value is cap or more
RECURSIVE DecimalCapped(_, _, _)
DecimalCapped(digits, acc, cap) ==
    IF digits = <<>> THEN acc
    ELSE LET next == acc * 10 + (Head(digits) - Digit0)
         IN  DecimalCapped(Tail(digits), IF next < cap THEN next ELSE cap, cap)

\* a digit string without its leading zeros
RECURSIVE Significant(_)
Significant(digits) ==
    IF digits # <<>> /\ Head(digits) = Digit0 THEN Significant(Tail(digits)) ELSE digits

\* the value of a numeric string is above usize::MAX = 18446744073709551615
ExceedsUsize(s) ==
    LET sig == Significant(Digits(s))
    IN  \/ Len(sig) > Len(UsizeMaxDigits)
        \/ Len(sig) = Len(UsizeMaxDigits) /\ LexLess(AsText(UsizeMaxDigits), sig)

\* what get must return for position `at` of a list, `at` capped at its length
AtPosition(list, at) == IF at < Len(list) THEN Ok(list[at + 1]) ELSE Err("IndexFail")

OffsetAnswer(list, off) ==
    IF \E m \in 0..(Len(list) - 1) : off = <<0, 0, 0, m>>
    THEN Ok(list[off[4] + 1])
    ELSE Err("IndexFail")

\* C6 as stated: get(Offset(i)) is the element at i iff i < n and IndexFail
\* otherwise; get(Text(s)) is FailConvert when s is no non-negative integer,
\* and otherwise the element for an in-range numeric string and IndexFail for
\* an out-of-range one; Null, Bool and Bytes keys give IndexFail.
C6_ListGet ==
    pc = "get" =>
        CASE key[1] = "Offset" -> res = OffsetAnswer(cur[2], key[2])
          [] key[1] = "Text" ->
                IF ~IsNumeric(key[2]) THEN res = Err("FailConvert")
                ELSE res = AtPosition(cur[2], DecimalCapped(Digits(key[2]), 0, Len(cur[2])))
          [] OTHER -> res = Err("IndexFail")

\* C6 amended: as C6, but a numeric string whose value is above usize::MAX
\* does not parse and gives FailConvert; only a numeric string whose value
\* fits a usize and is out of range gives IndexFail.
C6_ListGetWithinUsize ==
    pc = "get" =>
        CASE key[1] = "Offset" -> res = OffsetAnswer(cur[2], key[2])
          [] key[1] = "Text" ->
                IF ~IsNumeric(key[2]) \/ ExceedsUsize(key[2]) THEN res = Err("FailConvert")
                ELSE res = AtPosition(cur[2], DecimalCapped(Digits(key[2]), 0, Len(cur[2])))
          [] OTHER -> res = Err("IndexFail")

\* a list of two has been indexed by the text of usize::MAX, which parses
C6_Witness ==
    /\ pc = "get"
    /\ Len(cur[2]) = 2
    /\ key = KeyText(AsText(UsizeMaxDigits))
    /\ res = Err("IndexFail")

====
